---- MODULE Spec2Model ----
(***************************************************************************)
(* Plugin Result Store of OWTF (owtf/managers/poutput.py): the table of    *)
(* plugin outputs, the artifact directories on disk, the work queue and    *)
(* the busy workers, and the operations of the manager over them.          *)
(***************************************************************************)
EXTENDS Integers, Sequences, FiniteSets, TLC

VARIABLES
    table,      \* committed rows of models.PluginOutput
    dirs,       \* artifact directories that exist on disk
    work,       \* number of rows of models.Work (queued work items)
    busy,       \* worker_manager.get_busy_workers()
    del,        \* position of a running delete_all_poutput
    last,       \* the last finished call: its name, arguments and outcome
    saved,      \* natural keys saved and not deleted since (history)
    nops,       \* number of calls made so far
    wk,         \* the save each worker process is in, with its own session
    pg          \* position of a running plugin_count_output

vars == <<table, dirs, work, busy, del, last, saved, nops, wk, pg>>

(***************************************************************************)
(* Bounds of the model.                                                    *)
(***************************************************************************)
MaxOps == 3
MaxWork == 2
MaxBusy == 1

(***************************************************************************)
(* Python values as they reach the manager in filter and patch dicts.      *)
(***************************************************************************)
None == "None"
Absent == [tag |-> "none", s |-> "", n |-> 0, l |-> <<>>]
Str(x) == [tag |-> "str", s |-> x, n |-> 0, l |-> <<>>]
Num(x) == [tag |-> "int", s |-> "", n |-> x, l |-> <<>>]
List(x) == [tag |-> "list", s |-> "", n |-> 0, l |-> x]

\* bool(v): None, "", 0 and [] are false
Truthy(v) ==
    CASE v.tag = "none" -> FALSE
      [] v.tag = "str" -> v.s # ""
      [] v.tag = "int" -> v.n # 0
      [] v.tag = "list" -> v.l # <<>>

IsStr(v) == v.tag = "str"
IsList(v) == v.tag = "list"

\* dict.get(key, None)
Get(d, key) == IF key \in DOMAIN d THEN d[key] ELSE Absent

(***************************************************************************)
(* int(): the characters of the strings that occur as rank values, and     *)
(* the parse of Python's int() over them: surrounding blanks are           *)
(* stripped, one sign is accepted, then one or more decimal digits.        *)
(***************************************************************************)
Chars ==
    ("" :> <<>>) @@ ("x" :> <<"x">>) @@ ("3x" :> <<"3", "x">>) @@
    ("0" :> <<"0">>) @@ ("1" :> <<"1">>) @@ ("3" :> <<"3">>) @@
    ("5" :> <<"5">>) @@ ("6" :> <<"6">>) @@ ("-1" :> <<"-", "1">>) @@
    ("-2" :> <<"-", "2">>) @@ ("+4" :> <<"+", "4">>) @@
    (" 2" :> <<" ", "2">>) @@ ("04" :> <<"0", "4">>)

Digit ==
    ("0" :> 0) @@ ("1" :> 1) @@ ("2" :> 2) @@ ("3" :> 3) @@ ("4" :> 4) @@
    ("5" :> 5) @@ ("6" :> 6) @@ ("7" :> 7) @@ ("8" :> 8) @@ ("9" :> 9)

RECURSIVE Strip(_)
Strip(cs) ==
    IF cs = <<>> THEN cs
    ELSE IF Head(cs) = " " THEN Strip(Tail(cs))
    ELSE IF cs[Len(cs)] = " " THEN Strip(SubSeq(cs, 1, Len(cs) - 1))
    ELSE cs

\* the value of a run of decimal digits, -1 when a character is no digit
RECURSIVE Digits(_, _)
Digits(cs, acc) ==
    IF cs = <<>> THEN acc
    ELSE IF Head(cs) \in DOMAIN Digit
         THEN Digits(Tail(cs), 10 * acc + Digit[Head(cs)])
         ELSE -1

\* int(s) of a str: [ok |-> FALSE] stands for the ValueError it raises
ParseChars(cs) ==
    LET b == Strip(cs)
        neg == b # <<>> /\ Head(b) = "-"
        body == IF b # <<>> /\ Head(b) \in {"-", "+"} THEN Tail(b) ELSE b
        mag == IF body = <<>> THEN -1 ELSE Digits(body, 0)
    IN  IF mag < 0 THEN [ok |-> FALSE, v |-> 0]
        ELSE [ok |-> TRUE, v |-> IF neg THEN 0 - mag ELSE mag]

\* int(v) of a str or an int
PyInt(v) == IF v.tag = "int" THEN [ok |-> TRUE, v |-> v.n] ELSE ParseChars(Chars[v.s])

(***************************************************************************)
(* Targets, sessions, plugins and plugin runs.                             *)
(***************************************************************************)
Targets == {1, 2}
Sessions == {1, 2}

\* models.Target.sessions: the targets of each session
SessionTargets == (1 :> {1}) @@ (2 :> {1, 2})

\* the plugin dicts the workers hand to the manager (the fixed part)
Plugins ==
    { [group |-> "web", type |-> "active", code |-> "OWTF-A", key |-> "active@OWTF-A",
       output_path |-> "web/active/A"],
      [group |-> "web", type |-> "passive", code |-> "OWTF-B", key |-> "passive@OWTF-B",
       output_path |-> "web/passive/B"] }

\* the part of the plugin dict that a run fills in, with the output
Runs ==
    { [status |-> "Successful", start |-> 1, end |-> 2, owtf_rank |-> 3, output |-> "o1"],
      [status |-> "Aborted", start |-> 3, end |-> 5, owtf_rank |-> -1, output |-> "o2"] }

Messages == {"timeout"}

\* json.dumps of a str
JsonDumps(o) == "\"" \o o \o "\""

\* config_handler.get_plugin_output_dir(plugin), and the join of
\* config_handler.get_output_dir_target() with a row's output_path
PluginOutputDir(target_id, output_path) == <<target_id, output_path>>

AllDirs == {PluginOutputDir(t, p.output_path) : t \in Targets, p \in Plugins}

(***************************************************************************)
(* models.PluginOutput                                                     *)
(***************************************************************************)
Unranked == -1

\* the identity of a row: the table is keyed by the natural key
PrimaryKey(r) == <<r.target_id, r.plugin_group, r.plugin_type, r.plugin_code>>

\* the column defaults of a row inserted without these attributes
ColumnDefaults == [error |-> None, user_notes |-> None, user_rank |-> Unranked]

\* a merge that never looks the identity up
MergeInsert(tbl, obj) == tbl \cup {obj @@ ColumnDefaults}

\* Session.merge(obj) followed by the flush of the commit: the row with the
\* identity of obj takes the attributes that obj has set and keeps its
\* other ones; without such a row, obj is inserted with the column defaults
Merge(tbl, obj) ==
    LET same == {r \in tbl : PrimaryKey(r) = PrimaryKey(obj)}
    IN  IF same = {} THEN tbl \cup {obj @@ ColumnDefaults}
        ELSE (tbl \ same) \cup {obj @@ r : r \in same}

(***************************************************************************)
(* poutput_gen_query: the filter of a query, its order and its page.       *)
(***************************************************************************)
Range(q) == {q[i] : i \in 1..Len(q)}

\* a criterion that compares a column with the first item of a list
StrCriterionFirst(filter_data, f, r) ==
    LET v == Get(filter_data, f)
    IN  Truthy(v) =>
            /\ IsStr(v) => r[f] = v.s
            /\ IsList(v) => r[f] = v.l[1]

\* a str-or-list criterion on a string column (plugin_key .. status)
StrCriterion(filter_data, f, r) ==
    LET v == Get(filter_data, f)
    IN  Truthy(v) =>
            /\ IsStr(v) => r[f] = v.s
            /\ IsList(v) => r[f] \in Range(v.l)

\* a check that parses a single value only
RankRaisesStr(filter_data, f) ==
    LET v == Get(filter_data, f)
    IN  Truthy(v) /\ IsStr(v) /\ ~PyInt(v).ok

\* int() raises ValueError on the value of an integer criterion
RankRaises(filter_data, f) ==
    LET v == Get(filter_data, f)
    IN  /\ Truthy(v)
        /\ \/ IsStr(v) /\ ~PyInt(v).ok
           \/ IsList(v) /\ \E x \in Range(v.l) : ~PyInt(Str(x)).ok

\* a str-or-list criterion on an integer column (user_rank, owtf_rank)
RankCriterion(filter_data, f, r) ==
    LET v == Get(filter_data, f)
    IN  Truthy(v) =>
            /\ IsStr(v) => r[f] = PyInt(v).v
            /\ IsList(v) => r[f] \in {PyInt(Str(x)).v : x \in Range(v.l)}

\* offset and limit are read only from a list, from its first element
PageSet(filter_data, f) ==
    LET v == Get(filter_data, f) IN Truthy(v) /\ IsList(v)

PageValue(filter_data, f) == PyInt(Str(Get(filter_data, f).l[1]))

PageRaises(filter_data, f) == PageSet(filter_data, f) /\ ~PageValue(filter_data, f).ok

\* the query raises InvalidParameterType
QueryRaises(filter_data) ==
    \/ RankRaises(filter_data, "user_rank")
    \/ RankRaises(filter_data, "owtf_rank")
    \/ PageRaises(filter_data, "offset")
    \/ PageRaises(filter_data, "limit")

\* a query whose target is the target_id entry of the filter when it has one
TargetScopeOfFilter(filter_data, target_id) ==
    LET v == Get(filter_data, "target_id")
    IN  IF ~Truthy(v) THEN target_id
        ELSE IF IsList(v) THEN PyInt(Str(v.l[1])).v
        ELSE PyInt(v).v

\* the target of the query: filter_by(target_id=target_id); the query that
\* is built for a target_id entry of filter_data is not assigned to
\* anything, so the entry has no effect
TargetScope(filter_data, target_id) == target_id

\* a query that forgets the target_id argument
MatchingAnyTarget(tbl, filter_data, target_id) ==
    {r \in tbl :
        /\ StrCriterion(filter_data, "plugin_key", r)
        /\ StrCriterion(filter_data, "plugin_type", r)
        /\ StrCriterion(filter_data, "plugin_group", r)
        /\ StrCriterion(filter_data, "plugin_code", r)
        /\ StrCriterion(filter_data, "status", r)
        /\ RankCriterion(filter_data, "user_rank", r)
        /\ RankCriterion(filter_data, "owtf_rank", r)}

\* the rows the criteria of the query select: those of the target_id
\* argument (a target_id entry of filter_data builds a query that is
\* thrown away) that pass every criterion present
Matching(tbl, filter_data, target_id) ==
    {r \in tbl :
        /\ r.target_id = TargetScope(filter_data, target_id)
        /\ StrCriterion(filter_data, "plugin_key", r)
        /\ StrCriterion(filter_data, "plugin_type", r)
        /\ StrCriterion(filter_data, "plugin_group", r)
        /\ StrCriterion(filter_data, "plugin_code", r)
        /\ StrCriterion(filter_data, "status", r)
        /\ RankCriterion(filter_data, "user_rank", r)
        /\ RankCriterion(filter_data, "owtf_rank", r)}

\* the plugin keys in ascending string order
KeyCollation == <<"active@OWTF-A", "passive@OWTF-B">>

KeyRank(k) == CHOOSE i \in 1..Len(KeyCollation) : KeyCollation[i] = k

\* order_by(plugin_key.asc())
RECURSIVE OrderByKey(_)
OrderByKey(rows) ==
    IF rows = {} THEN <<>>
    ELSE LET r == CHOOSE x \in rows :
                    \A y \in rows : KeyRank(x.plugin_key) <= KeyRank(y.plugin_key)
         IN  <<r>> \o OrderByKey(rows \ {r})

\* every order the database may return the rows in
Orders(rows) ==
    {q \in [1..Cardinality(rows) -> rows] : \A i, j \in DOMAIN q : i # j => q[i] # q[j]}

\* offset() then limit() of an ordered result
Page(q, filter_data) ==
    LET o == IF PageSet(filter_data, "offset") THEN PageValue(filter_data, "offset").v ELSE 0
        rest == SubSeq(q, o + 1, Len(q))
        n == IF PageSet(filter_data, "limit") THEN PageValue(filter_data, "limit").v
             ELSE Len(rest)
    IN  SubSeq(rest, 1, IF n < Len(rest) THEN n ELSE Len(rest))

\* the results query.all() may return
QueryAll(tbl, filter_data, target_id, for_delete) ==
    LET m == Matching(tbl, filter_data, target_id)
    IN  IF for_delete THEN {Page(q, filter_data) : q \in Orders(m)}
        ELSE {Page(OrderByKey(m), filter_data)}

\* get_plugin_output_dict without the output: the row as a dict
PluginOutputDict(r) ==
    [f \in (DOMAIN r) \ {"output"} |-> r[f]] @@ [run_time |-> r.end_time - r.start_time]

(***************************************************************************)
(* The state after start-up, and the record kept of the last call.         *)
(***************************************************************************)
NoPlugin == [group |-> "", type |-> "", code |-> ""]
NoArg == "-"
Idle == [pc |-> "idle", target_id |-> 0, filter_data |-> <<>>, todo |-> {}, gone |-> {},
         found |-> {}, again |-> FALSE]

\* the worker processes, and a worker that is in no save
Workers == {1, 2}
NoSave == [pc |-> "idle", obj |-> <<>>, loaded |-> {}, result |-> NoArg, during |-> {}]

\* no plugin_count_output is running
NoStats == [complete_count |-> 0, left_count |-> 0]
NoCount == [pc |-> "idle", complete_count |-> 0, left_count |-> 0, since |-> 0,
            before |-> NoStats, after |-> NoStats, moved |-> 0]

Done(op, target_id, plugin, arg, result, out) ==
    [op |-> op, target_id |-> target_id,
     plugin |-> [group |-> plugin.group, type |-> plugin.type, code |-> plugin.code],
     arg |-> arg, result |-> result, out |-> out]

NaturalKey(target_id, plugin) == <<target_id, plugin.group, plugin.type, plugin.code>>

Init ==
    /\ table = {}
    /\ dirs = {}
    /\ work = 0
    /\ busy = 0
    /\ del = Idle
    /\ last = Done("start", 0, NoPlugin, NoArg, "ok", NoArg)
    /\ saved = {}
    /\ nops = 0
    /\ wk = [w \in Workers |-> NoSave]
    /\ pg = NoCount

\* a new call starts only when no call is running
Call == del.pc = "idle" /\ nops < MaxOps /\ nops' = nops + 1

(***************************************************************************)
(* The collaborators: the plugins that write artifacts and the workers.    *)
(***************************************************************************)
\* a plugin run writes files under its output directory
write_artifacts(target_id, plugin) ==
    /\ Call
    /\ dirs' = dirs \cup {PluginOutputDir(target_id, plugin.output_path)}
    /\ last' = Done("write_artifacts", target_id, plugin, NoArg, "ok", NoArg)
    /\ UNCHANGED <<wk, pg, table, work, busy, del, saved>>

\* a work item is queued
add_work ==
    /\ Call
    /\ work < MaxWork
    /\ work' = work + 1
    /\ last' = Done("add_work", 0, NoPlugin, NoArg, "ok", NoArg)
    /\ UNCHANGED <<wk, pg, table, dirs, busy, del, saved>>

\* a worker takes a work item off the queue and runs it
get_work ==
    /\ Call
    /\ work > 0
    /\ busy < MaxBusy
    /\ work' = work - 1
    /\ busy' = busy + 1
    /\ last' = Done("get_work", 0, NoPlugin, NoArg, "ok", NoArg)
    /\ UNCHANGED <<wk, pg, table, dirs, del, saved>>

\* a worker is done with its plugin
worker_done ==
    /\ Call
    /\ busy > 0
    /\ busy' = busy - 1
    /\ last' = Done("worker_done", 0, NoPlugin, NoArg, "ok", NoArg)
    /\ UNCHANGED <<wk, pg, table, dirs, work, del, saved>>

(***************************************************************************)
(* save_plugin_output and save_partial_output                              *)
(***************************************************************************)
\* a save that stores the path without looking at the disk
FullOutputAnyPath(plugin, run, target_id, fs) ==
    [plugin_key |-> plugin.key,
     plugin_code |-> plugin.code,
     plugin_group |-> plugin.group,
     plugin_type |-> plugin.type,
     output |-> JsonDumps(run.output),
     start_time |-> run.start,
     end_time |-> run.end,
     status |-> run.status,
     target_id |-> target_id,
     output_path |-> plugin.output_path,
     owtf_rank |-> run.owtf_rank]

\* the models.PluginOutput that save_plugin_output builds
FullOutput(plugin, run, target_id, fs) ==
    [plugin_key |-> plugin.key,
     plugin_code |-> plugin.code,
     plugin_group |-> plugin.group,
     plugin_type |-> plugin.type,
     output |-> JsonDumps(run.output),
     start_time |-> run.start,
     end_time |-> run.end,
     status |-> run.status,
     target_id |-> target_id,
     output_path |-> IF PluginOutputDir(target_id, plugin.output_path) \in fs
                     THEN plugin.output_path ELSE None,
     owtf_rank |-> run.owtf_rank]

\* the models.PluginOutput that save_partial_output builds
PartialOutput(plugin, run, message, target_id, fs) ==
    [error |-> message] @@ FullOutput(plugin, run, target_id, fs)

\* a commit whose failure leaves the pending state in the table
CommitAnyway(committed, tbl, commit_ok) == tbl

\* the commit of a session with the pending state tbl over the committed
\* table: a failed commit leaves the committed rows as they were
Commit(committed, tbl, commit_ok) == IF commit_ok THEN tbl ELSE committed

CommitResult(commit_ok) == IF commit_ok THEN "ok" ELSE "SQLAlchemyError"

save_plugin_output(plugin, run, target_id, commit_ok) ==
    /\ Call
    /\ table' = Commit(table, Merge(table, FullOutput(plugin, run, target_id, dirs)), commit_ok)
    /\ saved' = IF commit_ok THEN saved \cup {NaturalKey(target_id, plugin)} ELSE saved
    /\ last' = Done("save_plugin_output", target_id, plugin, run, CommitResult(commit_ok), NoArg)
    /\ UNCHANGED <<wk, pg, dirs, work, busy, del>>

save_partial_output(plugin, run, message, target_id, commit_ok) ==
    /\ Call
    /\ table' = Commit(table, Merge(table, PartialOutput(plugin, run, message, target_id, dirs)),
                       commit_ok)
    /\ saved' = IF commit_ok THEN saved \cup {NaturalKey(target_id, plugin)} ELSE saved
    /\ last' = Done("save_partial_output", target_id, plugin, run, CommitResult(commit_ok), NoArg)
    /\ UNCHANGED <<wk, pg, dirs, work, busy, del>>

(***************************************************************************)
(* update_poutput                                                          *)
(***************************************************************************)
\* a list value of the patch stands for its first element
FirstOf(v) == IF IsList(v) THEN Str(v.l[1]) ELSE v

\* int(patch_data["user_rank"]) raises ValueError
PatchRaises(patch_data) ==
    LET v == Get(patch_data, "user_rank")
    IN  Truthy(v) /\ ~PyInt(FirstOf(v)).ok

\* a patch that also assigns the status it carries
PatchedStatus(obj, patch_data) ==
    LET ur == Get(patch_data, "user_rank")
        st == Get(patch_data, "status")
        ranked == IF Truthy(ur)
                  THEN [obj EXCEPT !.user_rank = PyInt(FirstOf(ur)).v, !.owtf_rank = -1]
                  ELSE obj
    IN  IF Truthy(st) THEN [ranked EXCEPT !.status = FirstOf(st).s] ELSE ranked

\* obj after the assignments of the patch
Patched(obj, patch_data) ==
    LET ur == Get(patch_data, "user_rank")
        un == Get(patch_data, "user_notes")
        ranked == IF Truthy(ur)
                  THEN [obj EXCEPT !.user_rank = PyInt(FirstOf(ur)).v, !.owtf_rank = -1]
                  ELSE obj
    IN  IF Truthy(un) THEN [ranked EXCEPT !.user_notes = FirstOf(un).s] ELSE ranked

\* query.first() of the ordered query, <<>> for None
First(tbl, filter_data, target_id) ==
    LET q == OrderByKey(Matching(tbl, filter_data, target_id))
    IN  IF q = <<>> THEN <<>> ELSE <<q[1]>>

update_poutput(plugin, patch_data, target_id, commit_ok) ==
    LET plugin_dict == [plugin_group |-> Str(plugin.group), plugin_type |-> Str(plugin.type),
                        plugin_code |-> Str(plugin.code)]
        obj == First(table, plugin_dict, target_id)
    IN  /\ Call
        /\ IF obj = <<>>
           THEN /\ table' = table
                /\ last' = Done("update_poutput", target_id, plugin, patch_data, "ok", NoArg)
           ELSE IF PatchRaises(patch_data)
           THEN /\ table' = table
                /\ last' = Done("update_poutput", target_id, plugin, patch_data,
                                "InvalidParameterType", NoArg)
           ELSE /\ table' = Commit(table, Merge(table, Patched(obj[1], patch_data)), commit_ok)
                /\ last' = Done("update_poutput", target_id, plugin, patch_data,
                                CommitResult(commit_ok), NoArg)
        /\ UNCHANGED <<wk, pg, dirs, work, busy, del, saved>>

(***************************************************************************)
(* delete_all_poutput, statement by statement                              *)
(***************************************************************************)
\* the call before this one was the same delete, and the storage took it
\* (history)
Again(filter_data, target_id) ==
    /\ last.op = "delete_all_poutput"
    /\ last.target_id = target_id
    /\ last.arg = filter_data
    /\ last.result \in {"ok", "InvalidRequestError"}

\* poutput_gen_query and query.all()
delete_query(filter_data, target_id) ==
    /\ Call
    /\ IF QueryRaises(filter_data)
       THEN /\ del' = Idle
            /\ last' = Done("delete_all_poutput", target_id, NoPlugin, filter_data,
                            "InvalidParameterType", {})
       ELSE /\ \E q \in QueryAll(table, filter_data, target_id, TRUE) :
                    del' = [pc |-> "rm", target_id |-> target_id, filter_data |-> filter_data,
                            todo |-> q, gone |-> {}, found |-> Range(q),
                            again |-> Again(filter_data, target_id)]
            /\ last' = Done("delete_all_poutput", target_id, NoPlugin, filter_data,
                            "running", {})
    /\ UNCHANGED <<wk, pg, table, dirs, work, busy, saved>>

\* a loop that leaves the folders of the second target alone
RemovesFolderOfFirst(plugin, fs) ==
    /\ plugin.output_path # None
    /\ PluginOutputDir(plugin.target_id, plugin.output_path) \in fs
    /\ plugin.target_id = 1

\* the folder of a plugin is removed: its path is in the db and exists
RemovesFolder(plugin, fs) ==
    /\ plugin.output_path # None
    /\ PluginOutputDir(plugin.target_id, plugin.output_path) \in fs

\* FileOperations.rm_tree(path): the directory tree is removed in full
RmTree(fs, path) == fs \ {path}

\* one iteration of the loop over query.all()
delete_folder ==
    /\ del.pc = "rm"
    /\ del.todo # <<>>
    /\ LET plugin == Head(del.todo)
       IN  dirs' = IF RemovesFolder(plugin, dirs)
                   THEN RmTree(dirs, PluginOutputDir(plugin.target_id, plugin.output_path))
                   ELSE dirs
    /\ del' = [del EXCEPT !.todo = Tail(del.todo)]
    /\ UNCHANGED <<wk, pg, table, work, busy, last, saved, nops>>

\* a delete that does not wait for the end of the loop
FoldersDoneEarly(d) == d.pc = "rm"

\* the loop is over
FoldersDone(d) == d.pc = "rm" /\ d.todo = <<>>

\* query.delete(): refused for a query with an offset or a limit, otherwise
\* it deletes, in the transaction, the rows that match now
delete_rows ==
    /\ FoldersDone(del)
    /\ IF PageSet(del.filter_data, "offset") \/ PageSet(del.filter_data, "limit")
       THEN /\ del' = Idle
            /\ last' = [last EXCEPT !.result = "InvalidRequestError"]
       ELSE /\ del' = [del EXCEPT !.pc = "commit",
                                  !.gone = Matching(table, del.filter_data, del.target_id)]
            /\ last' = last
    /\ UNCHANGED <<wk, pg, table, dirs, work, busy, saved, nops>>

\* db.session.commit()
delete_commit(commit_ok) ==
    /\ del.pc = "commit"
    /\ table' = Commit(table, table \ del.gone, commit_ok)
    /\ saved' = IF commit_ok THEN saved \ {PrimaryKey(r) : r \in del.gone} ELSE saved
    /\ last' = [last EXCEPT !.result = CommitResult(commit_ok),
                            !.out = IF commit_ok THEN del.gone ELSE {}]
    /\ del' = Idle
    /\ UNCHANGED <<wk, pg, dirs, work, busy, nops>>

(***************************************************************************)
(* get_all_poutputs, plugin_count_output and get_severity_freq             *)
(***************************************************************************)
get_all_poutputs(filter_data, target_id) ==
    /\ Call
    /\ IF QueryRaises(filter_data)
       THEN last' = Done("get_all_poutputs", target_id, NoPlugin, filter_data,
                         "InvalidParameterType", <<>>)
       ELSE \E results \in QueryAll(table, filter_data, target_id, FALSE) :
                last' = Done("get_all_poutputs", target_id, NoPlugin, filter_data, "ok",
                             [i \in 1..Len(results) |-> PluginOutputDict(results[i])])
    /\ UNCHANGED <<wk, pg, table, dirs, work, busy, del, saved>>

\* counts that forget the busy workers
CountStatsQueued(tbl, queued, running) ==
    [complete_count |-> Cardinality(tbl), left_count |-> queued]

\* the three counts of plugin_count_output
CountStats(tbl, queued, running) ==
    [complete_count |-> Cardinality(tbl), left_count |-> queued + running]

plugin_count_output ==
    /\ Call
    /\ last' = Done("plugin_count_output", 0, NoPlugin, NoArg, "ok", CountStats(table, work, busy))
    /\ UNCHANGED <<wk, pg, table, dirs, work, busy, del, saved>>

NumBuckets == 6
Labels == <<"Passing", "Info", "Low", "Medium", "High", "Critical">>

severity_frequency == [i \in 1..NumBuckets |-> [id |-> i - 1, label |-> Labels[i], value |-> 0]]

\* the position of list[i] in a Python list of n items, 0 for an IndexError
PyIndex(i, n) ==
    IF 0 <= i /\ i < n THEN i + 1
    ELSE IF 0 - n <= i /\ i < 0 THEN i + n + 1
    ELSE 0

\* the body of the loop over plugin_objs, for one plugin_obj
CountOne(acc, plugin_obj, targets) ==
    LET rank == IF plugin_obj.user_rank # -1 THEN plugin_obj.user_rank ELSE plugin_obj.owtf_rank
        at == PyIndex(rank, NumBuckets)
    IN  IF ~acc.ok \/ plugin_obj.target_id \notin targets THEN acc
        ELSE IF plugin_obj.user_rank = -1 /\ plugin_obj.owtf_rank = -1 THEN acc
        ELSE IF at = 0 THEN [acc EXCEPT !.ok = FALSE]
        ELSE [acc EXCEPT !.freq[at].value = @ + 1]

\* the loop over plugin_objs
RECURSIVE CountAll(_, _, _)
CountAll(acc, plugin_objs, targets) ==
    IF plugin_objs = {} THEN acc
    ELSE LET plugin_obj == CHOOSE r \in plugin_objs : TRUE
         IN  CountAll(CountOne(acc, plugin_obj, targets), plugin_objs \ {plugin_obj}, targets)

\* severity_frequency[::-1]
Reversed(q) == [i \in 1..Len(q) |-> q[Len(q) + 1 - i]]

get_severity_freq(session_id) ==
    LET counted == CountAll([ok |-> TRUE, freq |-> severity_frequency], table,
                            SessionTargets[session_id])
    IN  /\ Call
        /\ last' = IF counted.ok
                   THEN Done("get_severity_freq", session_id, NoPlugin, NoArg, "ok",
                             [data |-> Reversed(counted.freq)])
                   ELSE Done("get_severity_freq", session_id, NoPlugin, NoArg, "IndexError",
                             [data |-> <<>>])
        /\ UNCHANGED <<wk, pg, table, dirs, work, busy, del, saved>>

(***************************************************************************)
(* The arguments of the calls.                                             *)
(***************************************************************************)
NoFilter == [f \in {} |-> Absent]

\* the plugins named in an update: those that run and one that never does
Named == Plugins \cup {[group |-> "web", type |-> "active", code |-> "OWTF-Z",
                        key |-> "active@OWTF-Z", output_path |-> "web/active/Z"]}

Patches ==
    { NoFilter,
      [user_rank |-> Str("5")],
      [user_rank |-> Str("0")],
      [user_rank |-> Num(0)],
      [user_rank |-> Num(4)],
      [user_rank |-> Str("x")],
      [user_rank |-> Str("")],
      [user_rank |-> Str("-2")],
      [user_rank |-> Str("6")],
      [user_rank |-> List(<<"1", "x">>)],
      [user_rank |-> List(<<"x", "1">>)],
      [user_notes |-> Str("fp")],
      [user_rank |-> Str("+4"), user_notes |-> List(<<"n1", "n2">>)],
      [user_rank |-> Str("5"), status |-> Str("Aborted"), output_path |-> Str("x")] }

DeleteFilters ==
    { NoFilter,
      [plugin_type |-> Str("active")],
      [status |-> List(<<"Aborted">>), plugin_group |-> Str("web")],
      [user_rank |-> Str("x")],
      [owtf_rank |-> List(<<"3", "3x">>)],
      [owtf_rank |-> Str("3")],
      [limit |-> List(<<"1">>)] }

Next ==
    \/ \E t \in Targets, p \in Plugins : write_artifacts(t, p)
    \/ add_work
    \/ get_work
    \/ worker_done
    \/ \E p \in Plugins, r \in Runs, t \in Targets, ok \in BOOLEAN :
            save_plugin_output(p, r, t, ok)
    \/ \E p \in Plugins, r \in Runs, m \in Messages, t \in Targets, ok \in BOOLEAN :
            save_partial_output(p, r, m, t, ok)
    \/ \E p \in Named, d \in Patches, t \in Targets, ok \in BOOLEAN :
            update_poutput(p, d, t, ok)
    \/ \E f \in DeleteFilters, t \in Targets : delete_query(f, t)
    \/ delete_folder
    \/ delete_rows
    \/ \E ok \in BOOLEAN : delete_commit(ok)
    \/ \E f \in DeleteFilters, t \in Targets : get_all_poutputs(f, t)
    \/ plugin_count_output
    \/ \E i \in Sessions : get_severity_freq(i)

Spec == Init /\ [][Next]_vars

(***************************************************************************)
(* The query on its own: get_all_poutputs over any table of rows that the  *)
(* saves and updates can make, for any filter.                             *)
(***************************************************************************)
\* the rows a key may have: a run saved, then ranked by a user or not
Ranked == <<NoFilter, [user_rank |-> Str("0")], [user_rank |-> Str("5")]>>

RowsFor(t, p) ==
    {Patched(FullOutput(p, run, t, {}) @@ ColumnDefaults, Ranked[i]) :
        run \in Runs, i \in 1..Len(Ranked)}

Slots == Targets \X Plugins

\* the tables with at most one row for each key of slots
RECURSIVE TablesOver(_)
TablesOver(slots) ==
    IF slots = {} THEN {{}}
    ELSE LET k == CHOOSE x \in slots : TRUE
             rest == TablesOver(slots \ {k})
         IN  rest \cup {tbl \cup {r} : tbl \in rest, r \in RowsFor(k[1], k[2])}

Tables == TablesOver(Slots)

QueryFilters ==
    { NoFilter,
      [plugin_type |-> Str("active")],
      [plugin_type |-> Str("")],
      [plugin_type |-> List(<<"active", "passive">>)],
      [plugin_type |-> List(<<"passive", "grep">>)],
      [plugin_type |-> List(<<>>)],
      [plugin_group |-> Str("web")],
      [plugin_group |-> Str("net")],
      [plugin_group |-> List(<<"net", "web">>)],
      [plugin_code |-> Str("OWTF-B")],
      [plugin_code |-> List(<<"OWTF-A", "OWTF-B">>)],
      [status |-> Str("Aborted")],
      [status |-> Str("")],
      [status |-> List(<<"Successful", "Aborted">>)],
      [status |-> List(<<>>)],
      [user_rank |-> Str("0")],
      [user_rank |-> Str("-1")],
      [user_rank |-> Str("")],
      [user_rank |-> Str("x")],
      [user_rank |-> Num(5)],
      [user_rank |-> List(<<"0", "5">>)],
      [user_rank |-> List(<<>>)],
      [owtf_rank |-> Str("3")],
      [owtf_rank |-> Str(" 2")],
      [owtf_rank |-> List(<<"-1", "3">>)],
      [owtf_rank |-> List(<<"3", "3x">>)],
      [status |-> Str("Aborted"), user_rank |-> Str("5")],
      [plugin_type |-> List(<<"active">>), owtf_rank |-> Str("-1")],
      [plugin_group |-> Str("web"), plugin_code |-> Str("OWTF-A"), status |-> Str("Successful")],
      [plugin_type |-> Str("passive"), user_rank |-> List(<<"-1", "0">>),
       owtf_rank |-> List(<<"3">>)] }

InitQuery ==
    /\ table \in Tables
    /\ dirs = {}
    /\ work = 0
    /\ busy = 0
    /\ del = Idle
    /\ last = Done("start", 0, NoPlugin, NoArg, "ok", NoArg)
    /\ saved = {PrimaryKey(r) : r \in table}
    /\ nops = MaxOps - 1
    /\ wk = [w \in Workers |-> NoSave]
    /\ pg = NoCount

NextQuery == \E f \in QueryFilters, t \in Targets : get_all_poutputs(f, t)

SpecQuery == InitQuery /\ [][NextQuery]_vars

(***************************************************************************)
(* The saves of the worker processes, statement by statement: each worker  *)
(* has its own session, Session.merge loads the row of the identity into   *)
(* it, and the flush of the commit writes what the session holds.          *)
(***************************************************************************)
\* db.session.merge(obj): the session of worker w loads the row with the
\* identity of obj, if there is one, and copies the attributes of obj on it
SessionMerge(w, obj) ==
    /\ wk[w].pc = "idle"
    /\ wk' = [wk EXCEPT ![w] = [pc |-> "merged", obj |-> obj,
                                loaded |-> {r \in table : PrimaryKey(r) = PrimaryKey(obj)},
                                result |-> NoArg,
                                during |-> {v \in Workers : wk[v].pc = "merged"}]]
    /\ UNCHANGED <<table, dirs, work, busy, del, last, saved, nops, pg>>

\* the merge of save_plugin_output in worker w
merge_plugin_output(w, plugin, run, target_id) ==
    SessionMerge(w, FullOutput(plugin, run, target_id, dirs))

\* the merge of save_partial_output in worker w
merge_partial_output(w, plugin, run, message, target_id) ==
    SessionMerge(w, PartialOutput(plugin, run, message, target_id, dirs))

\* the attributes of obj that differ from the row the session loaded
Changed(obj, old) == {f \in DOMAIN obj : obj[f] # old[f]}

\* an UPDATE without its WHERE clause
FlushEveryRow(tbl, obj, loaded) ==
    IF loaded = {}
    THEN IF \E r \in tbl : PrimaryKey(r) = PrimaryKey(obj)
         THEN [result |-> "IntegrityError", table |-> tbl]
         ELSE [result |-> "ok", table |-> tbl \cup {obj @@ ColumnDefaults}]
    ELSE LET old == CHOOSE r \in loaded : TRUE
             set == Changed(obj, old) \ {"target_id", "plugin_group", "plugin_type",
                                         "plugin_code", "plugin_key"}
         IN  [result |-> "ok",
              table |-> {[f \in DOMAIN r |-> IF f \in set THEN obj[f] ELSE r[f]] : r \in tbl}]

\* the flush of the commit: an INSERT when the merge found no row, refused
\* when the key is there by now; otherwise an UPDATE of the attributes that
\* changed on the loaded row, which finds its row or is stale
Flush(tbl, obj, loaded) ==
    LET now == {r \in tbl : PrimaryKey(r) = PrimaryKey(obj)}
    IN  IF loaded = {}
        THEN IF now # {}
             THEN [result |-> "IntegrityError", table |-> tbl]
             ELSE [result |-> "ok", table |-> tbl \cup {obj @@ ColumnDefaults}]
        ELSE LET old == CHOOSE r \in loaded : TRUE
                 set == Changed(obj, old)
             IN  IF set = {} THEN [result |-> "ok", table |-> tbl]
                 ELSE IF now = {} THEN [result |-> "StaleDataError", table |-> tbl]
                 ELSE [result |-> "ok",
                       table |-> (tbl \ now) \cup
                                 {[f \in DOMAIN r |-> IF f \in set THEN obj[f] ELSE r[f]] :
                                    r \in now}]

\* db.session.commit() of worker w, and the rollback when it raises
save_commit(w, commit_ok) ==
    LET flushed == Flush(table, wk[w].obj, wk[w].loaded)
        result == IF flushed.result # "ok" THEN flushed.result ELSE CommitResult(commit_ok)
    IN  /\ wk[w].pc = "merged"
        /\ table' = Commit(table, flushed.table, commit_ok)
        /\ saved' = IF result = "ok" THEN saved \cup {PrimaryKey(wk[w].obj)} ELSE saved
        /\ wk' = [wk EXCEPT ![w].pc = "done", ![w].result = result]
        /\ UNCHANGED <<dirs, work, busy, del, last, nops, pg>>

\* the rows that earlier saves and updates on the first target have left
SavedTables == TablesOver({k \in Slots : k[1] = 1})

InitSave ==
    /\ table \in SavedTables
    /\ dirs = {}
    /\ work = 0
    /\ busy = 0
    /\ del = Idle
    /\ last = Done("start", 0, NoPlugin, NoArg, "ok", NoArg)
    /\ saved = {PrimaryKey(r) : r \in table}
    /\ nops = 0
    /\ wk = [w \in Workers |-> NoSave]
    /\ pg = NoCount

NextSave ==
    \/ \E w \in Workers, p \in Plugins, r \in Runs, t \in Targets :
            merge_plugin_output(w, p, r, t)
    \/ \E w \in Workers, p \in Plugins, r \in Runs, m \in Messages, t \in Targets :
            merge_partial_output(w, p, r, m, t)
    \/ \E w \in Workers, ok \in BOOLEAN : save_commit(w, ok)

SpecSave == InitSave /\ [][NextSave]_vars

(***************************************************************************)
(* plugin_count_output, statement by statement, while work items go from   *)
(* the queue to a worker and from the worker to a record.                  *)
(***************************************************************************)
\* complete_count = get_count(db.session.query(models.PluginOutput)); the
\* counts of this moment and the number of calls so far are kept (history)
count_complete ==
    /\ pg.pc \in {"idle", "done"}
    /\ Call
    /\ pg' = [pc |-> "queue", complete_count |-> Cardinality(table), left_count |-> 0,
              since |-> nops', before |-> CountStats(table, work, busy), after |-> NoStats,
              moved |-> 0]
    /\ UNCHANGED <<wk, table, dirs, work, busy, del, last, saved>>

\* left_count = get_count(db.session.query(models.Work))
count_queue ==
    /\ pg.pc = "queue"
    /\ pg' = [pg EXCEPT !.pc = "busy", !.left_count = work]
    /\ UNCHANGED <<wk, table, dirs, work, busy, del, last, saved, nops>>

\* a sum that leaves the busy workers out
LeftCountQueued(queued, running) == queued

\* left_count += worker_manager.get_busy_workers()
LeftCount(queued, running) == queued + running

\* the last read and the return of the results; the counts of this moment
\* and the number of calls made since the first read are kept (history)
count_busy ==
    /\ pg.pc = "busy"
    /\ pg' = [pg EXCEPT !.pc = "done", !.left_count = LeftCount(pg.left_count, busy),
                        !.after = CountStats(table, work, busy), !.moved = nops - pg.since]
    /\ UNCHANGED <<wk, table, dirs, work, busy, del, last, saved, nops>>

InitProgress ==
    /\ table \in SavedTables
    /\ dirs = {}
    /\ work \in 0..MaxWork
    /\ busy \in 0..MaxBusy
    /\ del = Idle
    /\ last = Done("start", 0, NoPlugin, NoArg, "ok", NoArg)
    /\ saved = {PrimaryKey(r) : r \in table}
    /\ nops = 0
    /\ wk = [w \in Workers |-> NoSave]
    /\ pg = NoCount

NextProgress ==
    \/ add_work
    \/ get_work
    \/ \E p \in Plugins, r \in Runs, t \in Targets, ok \in BOOLEAN :
            save_plugin_output(p, r, t, ok)
    \/ worker_done
    \/ count_complete
    \/ count_queue
    \/ count_busy

SpecProgress == InitProgress /\ [][NextProgress]_vars

(***************************************************************************)
(* The pages of get_all_poutputs: filters that carry an offset or a limit. *)
(***************************************************************************)
PageFilters ==
    { NoFilter,
      [limit |-> List(<<"1">>)],
      [offset |-> List(<<"1">>)],
      [offset |-> List(<<"1">>), limit |-> List(<<"1">>)],
      [offset |-> List(<<"0">>), limit |-> List(<<"5">>)],
      [limit |-> List(<<"0">>)],
      [limit |-> List(<<"1", "5">>)],
      [limit |-> Str("1")],
      [offset |-> Str("1")],
      [plugin_type |-> List(<<"passive", "active">>), limit |-> List(<<" 2">>)],
      [status |-> Str("Successful"), offset |-> List(<<"1">>)] }

NextPage == \E f \in PageFilters, t \in Targets : get_all_poutputs(f, t)

SpecPage == InitQuery /\ [][NextPage]_vars

(***************************************************************************)
(* The delete on its own: delete_all_poutput, once and again, over the     *)
(* records and directories that saves and unfinished deletes leave.        *)
(***************************************************************************)
\* the rows a save leaves for a key, with the directory there or not
StoredFor(t, p) ==
    {FullOutput(p, run, t, fs) @@ ColumnDefaults : run \in Runs, fs \in {{}, AllDirs}}

StoredSlots == {k \in Slots : k[1] = 1 \/ k[2].code = "OWTF-A"}

RECURSIVE StoredOver(_)
StoredOver(slots) ==
    IF slots = {} THEN {{}}
    ELSE LET k == CHOOSE x \in slots : TRUE
             rest == StoredOver(slots \ {k})
         IN  rest \cup {tbl \cup {r} : tbl \in rest, r \in StoredFor(k[1], k[2])}

StoredDirs == {PluginOutputDir(k[1], k[2].output_path) : k \in StoredSlots}

InitDelete ==
    /\ table \in StoredOver(StoredSlots)
    /\ dirs \in SUBSET StoredDirs
    /\ work = 0
    /\ busy = 0
    /\ del = Idle
    /\ last = Done("start", 0, NoPlugin, NoArg, "ok", NoArg)
    /\ saved = {PrimaryKey(r) : r \in table}
    /\ nops = MaxOps - 2
    /\ wk = [w \in Workers |-> NoSave]
    /\ pg = NoCount

NextDelete ==
    \/ \E f \in DeleteFilters, t \in Targets : delete_query(f, t)
    \/ delete_folder
    \/ delete_rows
    \/ \E ok \in BOOLEAN : delete_commit(ok)

SpecDelete == InitDelete /\ [][NextDelete]_vars

(***************************************************************************)
(* The target of a call: get_all_poutputs, update_poutput and              *)
(* delete_all_poutput with filters that carry a target_id of their own,    *)
(* over records and directories of both targets.                           *)
(***************************************************************************)
ScopeFilters ==
    { NoFilter,
      [target_id |-> Str("1")],
      [target_id |-> Num(2)],
      [target_id |-> List(<<" 2">>)],
      [target_id |-> Num(1), plugin_type |-> Str("active")],
      [target_id |-> Str(" 2"), status |-> List(<<"Successful", "Aborted">>)] }

InitScope ==
    /\ table \in StoredOver(StoredSlots)
    /\ dirs \in SUBSET StoredDirs
    /\ work = 0
    /\ busy = 0
    /\ del = Idle
    /\ last = Done("start", 0, NoPlugin, NoArg, "ok", NoArg)
    /\ saved = {PrimaryKey(r) : r \in table}
    /\ nops = MaxOps - 1
    /\ wk = [w \in Workers |-> NoSave]
    /\ pg = NoCount

NextScope ==
    \/ \E f \in ScopeFilters, t \in Targets : get_all_poutputs(f, t)
    \/ \E p \in Named, d \in Patches, t \in Targets, ok \in BOOLEAN :
            update_poutput(p, d, t, ok)
    \/ \E f \in ScopeFilters, t \in Targets : delete_query(f, t)
    \/ delete_folder
    \/ delete_rows
    \/ \E ok \in BOOLEAN : delete_commit(ok)

SpecScope == InitScope /\ [][NextScope]_vars

(***************************************************************************)
(* A delete_all_poutput while a worker saves on the first target: the      *)
(* statements of the delete and the merge and commit of the save in any    *)
(* order.                                                                  *)
(***************************************************************************)
InitRace ==
    /\ table \in StoredOver({k \in Slots : k[1] = 1})
    /\ dirs \in SUBSET {PluginOutputDir(1, p.output_path) : p \in Plugins}
    /\ work = 0
    /\ busy = 0
    /\ del = Idle
    /\ last = Done("start", 0, NoPlugin, NoArg, "ok", NoArg)
    /\ saved = {PrimaryKey(r) : r \in table}
    /\ nops = MaxOps - 1
    /\ wk = [w \in Workers |-> NoSave]
    /\ pg = NoCount

NextRace ==
    \/ \E f \in DeleteFilters, t \in Targets : delete_query(f, t)
    \/ delete_folder
    \/ delete_rows
    \/ \E ok \in BOOLEAN : delete_commit(ok)
    \/ \E p \in Plugins, r \in Runs : merge_plugin_output(1, p, r, 1)
    \/ \E ok \in BOOLEAN : save_commit(1, ok)

SpecRace == InitRace /\ [][NextRace]_vars

(***************************************************************************)
(* Properties of the Record Store.                                         *)
(***************************************************************************)
AllKeys == {NaturalKey(t, p) : t \in Targets, p \in Named}

KeyOf(r) == <<r.target_id, r.plugin_group, r.plugin_type, r.plugin_code>>

RowsOf(k) == {r \in table : KeyOf(r) = k}

LastKey == NaturalKey(last.target_id, last.plugin)

\* C1: in every state there is at most one Result Record for each
\* (target_id, plugin_group, plugin_type, plugin_code), and exactly one for
\* every tuple that was saved and not deleted since.
C1_OneRecordPerKey ==
    \A k \in AllKeys :
        /\ Cardinality(RowsOf(k)) <= 1
        /\ k \in saved => Cardinality(RowsOf(k)) = 1

\* a full save has just overwritten a record that a partial save had made
C1_Witness ==
    /\ last.op = "save_plugin_output"
    /\ last.result = "ok"
    /\ \E r \in RowsOf(LastKey) : r.error # None

\* C2: a save_plugin_output on a key that already has a record, with
\* another output, completes without error when the storage commits, and
\* leaves exactly one record for the key, whose status, output, start and
\* end time, owtf_rank and output_path are those of this call.
C2_SecondSaveWins ==
    [][ LET t == last'.target_id
            run == last'.arg
            p == CHOOSE x \in Plugins : NaturalKey(t, x) = NaturalKey(t, last'.plugin)
        IN  ( /\ last'.op = "save_plugin_output"
              /\ save_plugin_output(p, run, t, TRUE)
              /\ \E r \in RowsOf(NaturalKey(t, p)) : r.output # JsonDumps(run.output) )
            => /\ last'.result = "ok"
               /\ Cardinality({r \in table' : KeyOf(r) = NaturalKey(t, p)}) = 1
               /\ \A r \in table' : KeyOf(r) = NaturalKey(t, p) =>
                    /\ r.status = run.status
                    /\ r.output = JsonDumps(run.output)
                    /\ r.start_time = run.start
                    /\ r.end_time = run.end
                    /\ r.owtf_rank = run.owtf_rank
                    /\ r.output_path = IF <<t, p.output_path>> \in dirs
                                       THEN p.output_path ELSE None
      ]_vars

\* a full save has just overwritten a record that a full save had made and
\* a user had ranked since
C2_Witness ==
    /\ last.op = "save_plugin_output"
    /\ last.result = "ok"
    /\ \E r \in RowsOf(LastKey) : r.error = None /\ r.user_rank # -1

\* C3: when delete_all_poutput with the empty filter completes on a target,
\* no record of the target is left and no artifact directory referenced by
\* the output_path of a removed record exists.
C3_DeleteAll ==
    ( /\ last.op = "delete_all_poutput"
      /\ last.result = "ok"
      /\ DOMAIN last.arg = {} )
    => /\ \A r \in table : r.target_id # last.target_id
       /\ \A r \in last.out : r.output_path # None => <<r.target_id, r.output_path>> \notin dirs

\* the empty filter has just removed a record together with its directory
C3_Witness ==
    /\ last.op = "delete_all_poutput"
    /\ last.result = "ok"
    /\ DOMAIN last.arg = {}
    /\ \E r \in last.out : r.output_path # None

\* the strings that int() accepts, with the integers they denote
IntValue ==
    ("0" :> 0) @@ ("1" :> 1) @@ ("3" :> 3) @@ ("5" :> 5) @@ ("6" :> 6) @@
    ("-1" :> -1) @@ ("-2" :> -2) @@ ("+4" :> 4) @@ (" 2" :> 2) @@ ("04" :> 4)

\* the value v is one of the forms a patch accepts for a rank
IsRank(v) ==
    \/ v.tag = "int"
    \/ v.tag = "str" /\ v.s \in DOMAIN IntValue
    \/ v.tag = "list" /\ v.l # <<>> /\ v.l[1] \in DOMAIN IntValue

\* the rank that such a value stands for
RankOf(v) ==
    CASE v.tag = "int" -> v.n
      [] v.tag = "str" -> IntValue[v.s]
      [] v.tag = "list" -> IntValue[v.l[1]]

\* C4: after update_poutput with a user_rank N >= 0, in any form the patch
\* accepts, on an existing record, the record has user_rank = N and
\* owtf_rank = -1.
C4_UserRankSet ==
    ( /\ last.op = "update_poutput"
      /\ last.result = "ok"
      /\ "user_rank" \in DOMAIN last.arg
      /\ IsRank(last.arg.user_rank)
      /\ RankOf(last.arg.user_rank) >= 0 )
    => \A r \in RowsOf(LastKey) :
            r.user_rank = RankOf(last.arg.user_rank) /\ r.owtf_rank = -1

RankFields == {"user_rank", "owtf_rank"}

\* a rank value of which a string, single or in a list, is not an integer
NotInteger(v) ==
    \/ v.tag = "str" /\ v.s \notin DOMAIN IntValue
    \/ v.tag = "list" /\ \E x \in Range(v.l) : x \notin DOMAIN IntValue

\* a rank value of a filter that the query parses and cannot
BadInFilter(v) == v # Str("") /\ NotInteger(v)

\* a rank value of a patch that the update parses and cannot
BadInPatch(v) ==
    \/ v.tag = "str" /\ v.s # "" /\ v.s \notin DOMAIN IntValue
    \/ v.tag = "list" /\ v.l # <<>> /\ v.l[1] \notin DOMAIN IntValue

StringFields == {"plugin_type", "plugin_group", "plugin_code", "status"}

\* the record r passes the criterion v on the field f: equality for a
\* single value, membership for a list
Passes(f, v, r) ==
    IF f \in RankFields
    THEN CASE v.tag = "str" -> r[f] = IntValue[v.s]
           [] v.tag = "int" -> r[f] = v.n
           [] v.tag = "list" -> \E i \in 1..Len(v.l) : r[f] = IntValue[v.l[i]]
    ELSE CASE v.tag = "str" -> r[f] = v.s
           [] v.tag = "list" -> \E i \in 1..Len(v.l) : r[f] = v.l[i]

Empty(v) == v = Str("") \/ v = List(<<>>)

\* the keys of the records a call of get_all_poutputs has returned
Returned == {KeyOf(last.out[i]) : i \in 1..Len(last.out)}

\* C5 as stated: for every filter F over the recognized fields, each a
\* single value or a list, the query for target t returns exactly the
\* records of t that pass the criterion of every field of F.
C5_Original ==
    ( /\ last.op = "get_all_poutputs"
      /\ \A f \in RankFields \cap DOMAIN last.arg : ~NotInteger(last.arg[f]) )
    => LET expected == {r \in table : /\ r.target_id = last.target_id
                                      /\ \A f \in DOMAIN last.arg : Passes(f, last.arg[f], r)}
       IN  /\ last.result = "ok"
           /\ Returned = {KeyOf(r) : r \in expected}
           /\ Len(last.out) = Cardinality(expected)

\* C5 amended: for every filter F over the recognized fields, each a string
\* or a list of strings with every non-empty rank value an integer, the
\* query for target t returns exactly the records of t that pass the
\* criterion of every field of F whose value is not empty; a field that is
\* absent, or has the empty string or the empty list for value, imposes no
\* constraint, so the empty filter returns all the records of t.
C5_Query ==
    ( /\ last.op = "get_all_poutputs"
      /\ \A f \in DOMAIN last.arg : last.arg[f].tag \in {"str", "list"}
      /\ \A f \in RankFields \cap DOMAIN last.arg : ~BadInFilter(last.arg[f]) )
    => LET expected == {r \in table :
                            /\ r.target_id = last.target_id
                            /\ \A f \in DOMAIN last.arg :
                                  ~Empty(last.arg[f]) => Passes(f, last.arg[f], r)}
       IN  /\ last.result = "ok"
           /\ Returned = {KeyOf(r) : r \in expected}
           /\ Len(last.out) = Cardinality(expected)
           /\ DOMAIN last.arg = {} => Len(last.out) = Cardinality({r \in table :
                                                        r.target_id = last.target_id})

\* a filter on two fields has returned one of the two records of a target
C5_Witness ==
    /\ last.op = "get_all_poutputs"
    /\ last.result = "ok"
    /\ Cardinality(DOMAIN last.arg) >= 2
    /\ Len(last.out) = 1
    /\ Cardinality({r \in table : r.target_id = last.target_id}) = 2

EffectiveRank(r) == IF r.user_rank # -1 THEN r.user_rank ELSE r.owtf_rank

\* C6: get_severity_freq returns the six buckets, Critical (5) first and
\* Passing (0) last, and the bucket of each rank counts the records of the
\* targets of the session whose effective rank it is.
C6_Histogram ==
    last.op = "get_severity_freq"
    => /\ last.result = "ok"
       /\ Len(last.out.data) = 6
       /\ \A i \in 1..6 :
            /\ last.out.data[i].id = 6 - i
            /\ last.out.data[i].value =
                  Cardinality({r \in table : /\ r.target_id \in SessionTargets[last.target_id]
                                             /\ EffectiveRank(r) = 6 - i})

\* C7: plugin_count_output returns the number of records of all targets as
\* complete_count and the queued work items plus the busy workers as
\* left_count, and changes neither the records nor the queue.
C7_Progress ==
    /\ [](last.op = "plugin_count_output"
            => /\ last.out.complete_count = Cardinality(table)
               /\ last.out.left_count = work + busy)
    /\ [][(last'.op = "plugin_count_output" /\ nops' = nops + 1)
            => table' = table /\ work' = work /\ busy' = busy /\ dirs' = dirs]_vars

\* the counts were returned with a record stored and work left
C7_Witness ==
    /\ last.op = "plugin_count_output"
    /\ last.out.complete_count >= 1
    /\ last.out.left_count >= 1

QueryOps == {"get_all_poutputs", "delete_all_poutput"}

\* an invalid-parameter error leaves the records and the directories alone
Rejected ==
    [][(last'.result = "InvalidParameterType" /\ nops' = nops + 1)
        => table' = table /\ dirs' = dirs /\ del'.pc = "idle"]_vars

\* C8 as stated: a filter or patch with a user_rank / owtf_rank value that
\* is not integer-parseable (single, or any element of a list) makes
\* get_all, delete_matching and update fail with the invalid-parameter
\* error, without side effect.
C8_Original ==
    /\ []( /\ last.op \in QueryOps \cup {"update_poutput"}
           /\ \E f \in RankFields \cap DOMAIN last.arg : NotInteger(last.arg[f])
           => last.result = "InvalidParameterType" )
    /\ Rejected

\* C8 amended: a filter with a non-empty rank value that is not an integer
\* (a string, or any element of a list) makes get_all and delete_matching
\* fail with the invalid-parameter error; a patch whose user_rank (a
\* non-empty string, or the first element of a list) is not an integer makes
\* the update of an existing record fail with it; a failed call returns no
\* record and changes no record and no directory.
C8_InvalidParameter ==
    /\ []( /\ ( /\ last.op \in QueryOps
                /\ \E f \in RankFields \cap DOMAIN last.arg : BadInFilter(last.arg[f]) )
              => last.result = "InvalidParameterType"
           /\ ( /\ last.op = "update_poutput"
                /\ "user_rank" \in DOMAIN last.arg
                /\ BadInPatch(last.arg.user_rank)
                /\ RowsOf(LastKey) # {} )
              => last.result = "InvalidParameterType"
           /\ (last.op = "get_all_poutputs" /\ last.result = "InvalidParameterType")
              => last.out = <<>>
           /\ (last.op = "delete_all_poutput" /\ last.result = "InvalidParameterType")
              => last.out = {} )
    /\ Rejected

\* a delete was refused on a target that had a record with a directory
C8_Witness ==
    /\ last.op = "delete_all_poutput"
    /\ last.result = "InvalidParameterType"
    /\ \E r \in table : /\ r.target_id = last.target_id
                        /\ r.output_path # None
                        /\ <<r.target_id, r.output_path>> \in dirs

C10_FoldersFirst ==
    \A r \in del.gone \cup (IF last.op = "delete_all_poutput" /\ last.result = "ok"
                            THEN last.out ELSE {}) :
        r.output_path # None => <<r.target_id, r.output_path>> \notin dirs

\* query.delete() has deleted a row that names a directory
C10_Witness ==
    /\ del.pc = "commit"
    /\ \E r \in del.gone : r.output_path # None


\* a record of the key that the last call names
Unmatched(t, plugin) == \A r \in table : KeyOf(r) # NaturalKey(t, plugin)

\* C12: an update_poutput on a key that no record has, and a
\* delete_all_poutput whose filter no record matches, complete without an
\* error and leave the records and the artifact directories as they were.
C12_NoMatchNoOp ==
    [][ /\ ( /\ last'.op = "update_poutput"
             /\ nops' = nops + 1
             /\ Unmatched(last'.target_id, last'.plugin) )
            => /\ last'.result = "ok"
               /\ table' = table
               /\ dirs' = dirs
        /\ ( /\ del.pc = "rm"
             /\ del.found = {}
             /\ del'.pc = "idle" )
            => /\ last'.result = "ok"
               /\ table' = table
               /\ dirs' = dirs
        /\ ( /\ del.pc = "commit"
             /\ del.found = {}
             /\ delete_commit(TRUE) )
            => /\ last'.result = "ok"
               /\ table' = table
               /\ dirs' = dirs
      ]_vars

\* C13: every record has its user_rank and its owtf_rank in -1..5.
C13_RanksInRange ==
    \A r \in table :
        /\ r.user_rank \in -1..(NumBuckets - 1)
        /\ r.owtf_rank \in -1..(NumBuckets - 1)

\* the directory that a record refers to
FolderOf(r) == PluginOutputDir(r.target_id, r.output_path)

\* C14: a save stores an output_path only when the directory of the plugin
\* exists at that time, and between the calls no record has an output_path
\* whose directory does not exist.
C14_NoDanglingPath ==
    /\ [](del.pc = "idle" => \A r \in table : r.output_path # None => FolderOf(r) \in dirs)
    /\ [][ ( /\ last'.op \in {"save_plugin_output", "save_partial_output"}
             /\ nops' = nops + 1
             /\ last'.result = "ok" )
            => \A r \in table' :
                    ( /\ KeyOf(r) = NaturalKey(last'.target_id, last'.plugin)
                      /\ r.output_path # None )
                    => FolderOf(r) \in dirs
         ]_vars


\* the fields that an update may write
PatchFields == {"user_rank", "owtf_rank", "user_notes"}

\* C17: an update_poutput changes at most the user_rank, the owtf_rank and
\* the user_notes of the one record of its target_id, group, type and code:
\* the other fields of that record, the other records, the number of
\* records and the artifact directories stay, whatever keys the patch has.
C17_UpdateFrame ==
    [][ ( /\ last'.op = "update_poutput"
          /\ nops' = nops + 1 )
        => /\ dirs' = dirs
           /\ Cardinality(table') = Cardinality(table)
           /\ \A r \in table :
                IF KeyOf(r) = NaturalKey(last'.target_id, last'.plugin)
                THEN \E n \in table' : \A f \in DOMAIN r \ PatchFields : n[f] = r[f]
                ELSE r \in table'
      ]_vars

\* an update whose patch carries a status and an output_path has ranked one
\* of two records
C17_Witness ==
    /\ last.op = "update_poutput"
    /\ last.result = "ok"
    /\ "status" \in DOMAIN last.arg
    /\ Cardinality(table) = 2
    /\ \E r \in RowsOf(LastKey) : r.user_rank = 5 /\ r.status # last.arg.status.s

\* the record r satisfies the criteria of the filter F
Satisfies(F, r) ==
    \A f \in DOMAIN F \cap (StringFields \cup RankFields) :
        ~Empty(F[f]) => Passes(f, F[f], r)

\* the delete that a step belongs to
Deleting == IF del.pc = "idle" THEN del' ELSE del

\* C18: a delete_all_poutput with filter F on target t removes only records
\* of t that satisfy F: a record of another target, or of t and not
\* satisfying F, is unchanged by every step of the delete, and its
\* artifact directory is still there.
C18_DeleteFrame ==
    [][ ( /\ last'.op = "delete_all_poutput"
          /\ del.pc # "idle" \/ del'.pc # "idle" )
        => \A r \in table :
                ( \/ r.target_id # Deleting.target_id
                  \/ ~Satisfies(Deleting.filter_data, r) )
                => /\ r \in table'
                   /\ ( r.output_path # None /\ FolderOf(r) \in dirs )
                        => FolderOf(r) \in dirs'
      ]_vars

\* a delete has removed a record and its directory and has left a record
\* of the same target, which does not pass the filter, with its directory
C18_Witness ==
    /\ last.op = "delete_all_poutput"
    /\ last.result = "ok"
    /\ \E g \in last.out : g.output_path # None /\ FolderOf(g) \notin dirs
    /\ \E r \in table :
            /\ r.target_id = last.target_id
            /\ ~Satisfies(last.arg, r)
            /\ r.output_path # None
            /\ FolderOf(r) \in dirs


\* C15: a delete_all_poutput on a record whose directory is already gone
\* is no error and deletes the row when the storage commits, and a second
\* delete_all_poutput with the same filter right after the first changes
\* neither the records nor the directories.
C15_DeleteIdempotent ==
    [][ /\ ( /\ del.pc = "rm"
             /\ del'.pc = "idle"
             /\ \E r \in del.found : r.output_path # None )
            => last'.result = "ok"
        /\ ( /\ del.pc = "commit"
             /\ delete_commit(TRUE) )
            => /\ last'.result = "ok"
               /\ del.found \cap table' = {}
        /\ ( /\ del.pc # "idle"
             /\ del.again )
            => /\ table' = table
               /\ dirs' = dirs
      ]_vars


\* the offset or limit that a filter carries, as a single value or as the
\* first element of a list
Carried(F, f) == IF F[f].tag = "list" THEN IntValue[F[f].l[1]] ELSE IntValue[F[f].s]

\* the number of records of rows that come before r in plugin_key order
Before(rows, r) == Cardinality({x \in rows : KeyRank(x.plugin_key) < KeyRank(r.plugin_key)})

\* C16: get_all_poutputs returns the matching records in ascending
\* plugin_key order, and with an offset o and/or a limit l in the filter,
\* as a single value or as a list, exactly the records of that order from
\* position o on, at most l of them.
C16_Paging ==
    ( /\ last.op = "get_all_poutputs"
      /\ last.result = "ok" )
    => LET F == last.arg
           rows == {r \in table : r.target_id = last.target_id /\ Satisfies(F, r)}
           o == IF "offset" \in DOMAIN F THEN Carried(F, "offset") ELSE 0
           page == {r \in rows : /\ o <= Before(rows, r)
                                 /\ "limit" \in DOMAIN F
                                        => Before(rows, r) < o + Carried(F, "limit")}
       IN  /\ \A i, j \in 1..Len(last.out) :
                i < j => KeyRank(last.out[i].plugin_key) < KeyRank(last.out[j].plugin_key)
           /\ Returned = {KeyOf(r) : r \in page}


\* the workers have both made a save, and the storage has failed neither
BothSaved ==
    \A w \in Workers : wk[w].pc = "done" /\ wk[w].result # "SQLAlchemyError"

\* the record r has the fields that worker w submitted
Submitted(r, w) == \A f \in DOMAIN wk[w].obj : r[f] = wk[w].obj[f]

\* C11: once two workers have both finished a save of the same target_id,
\* group, type and code, in whatever order their statements ran, there is
\* exactly one record of that key and its fields are those that one of the
\* two workers submitted.
C11_SameKeySaves ==
    ( /\ BothSaved
      /\ PrimaryKey(wk[1].obj) = PrimaryKey(wk[2].obj) )
    => /\ Cardinality({r \in table : PrimaryKey(r) = PrimaryKey(wk[1].obj)}) = 1
       /\ \A r \in table :
            PrimaryKey(r) = PrimaryKey(wk[1].obj) => \E w \in Workers : Submitted(r, w)

\* C19: a save of worker w creates or changes only the record of its key;
\* once workers that save distinct keys have finished, in whatever order
\* their statements ran, every key has its record with the fields its
\* worker submitted; and the commit of a worker never waits for another.
C19_DistinctKeySaves ==
    /\ []( ( /\ BothSaved
             /\ PrimaryKey(wk[1].obj) # PrimaryKey(wk[2].obj) )
           => \A w \in Workers :
                /\ wk[w].result = "ok"
                /\ \E r \in table : PrimaryKey(r) = PrimaryKey(wk[w].obj) /\ Submitted(r, w) )
    /\ [](\A w \in Workers : wk[w].pc = "merged" => ENABLED save_commit(w, TRUE))
    /\ [][ \A w \in Workers :
            ( wk[w].pc = "merged" /\ wk'[w].pc = "done" )
            => /\ \A r \in table : PrimaryKey(r) # PrimaryKey(wk[w].obj) => r \in table'
               /\ \A r \in table' \ table : PrimaryKey(r) = PrimaryKey(wk[w].obj)
         ]_vars

\* two workers whose saves ran at the same time have each replaced the
\* record of their own key
C19_Witness ==
    /\ BothSaved
    /\ PrimaryKey(wk[1].obj) # PrimaryKey(wk[2].obj)
    /\ wk[1].during # {} \/ wk[2].during # {}
    /\ \A w \in Workers : wk[w].loaded # {} /\ wk[w].loaded \cap table = {}


\* the distance of two counts
Off(a, b) == IF a < b THEN b - a ELSE a - b

\* the counts that a plugin_count_output has returned
Counted == [complete_count |-> pg.complete_count, left_count |-> pg.left_count]

\* C20: plugin_count_output makes its three reads one after the other, so
\* calls that run between the reads show in the result: with none in
\* between the counts are those of the moment, and each call in between (a
\* work item taken by a worker, a record committed, a worker done) moves
\* complete_count and left_count at most one away from the counts at the
\* first read and at the last read.
C20_ProgressReads ==
    pg.pc = "done"
    => /\ pg.moved = 0 => Counted = pg.before /\ Counted = pg.after
       /\ pg.before.complete_count = pg.complete_count
       /\ Off(pg.complete_count, pg.after.complete_count) <= pg.moved
       /\ Off(pg.left_count, pg.before.left_count) <= pg.moved
       /\ Off(pg.left_count, pg.after.left_count) <= pg.moved

\* a record was committed and its worker was done between the first and the
\* last read: the item is in neither count, and the sum of the counts is
\* one less than at the first read and one less than at the last read
C20_Witness ==
    /\ pg.pc = "done"
    /\ pg.moved = 2
    /\ pg.after.complete_count = pg.complete_count + 1
    /\ pg.complete_count + pg.left_count + 1 = pg.before.complete_count + pg.before.left_count
    /\ pg.complete_count + pg.left_count + 1 = pg.after.complete_count + pg.after.left_count


\* C22: whatever saves and updates were made, a re-save of a key that a
\* user has ranked included, no record has a user_rank that is 0 or more
\* together with an owtf_rank other than -1.
C22_RanksExclusive ==
    \A r \in table : ~(r.user_rank >= 0 /\ r.owtf_rank # -1)


\* the target that a step of a call works on
Scope == IF del.pc # "idle" THEN del.target_id ELSE last'.target_id

\* C23: the target_id argument alone fixes the target of a call: with any
\* filter, one with a target_id entry of its own included,
\* get_all_poutputs returns the records of the target_id argument that
\* pass the other criteria and no record of another target, and no step of
\* an update_poutput or a delete_all_poutput changes or removes a record of
\* another target or removes its directory.
C23_TargetScope ==
    /\ []( ( /\ last.op = "get_all_poutputs"
             /\ last.result = "ok" )
           => /\ \A i \in 1..Len(last.out) : last.out[i].target_id = last.target_id
              /\ Returned = {KeyOf(r) : r \in {x \in table : /\ x.target_id = last.target_id
                                                             /\ Satisfies(last.arg, x)}} )
    /\ [][ last'.op \in {"update_poutput", "delete_all_poutput"}
           => \A r \in table :
                r.target_id # Scope
                => /\ r \in table'
                   /\ ( r.output_path # None /\ FolderOf(r) \in dirs )
                        => FolderOf(r) \in dirs'
         ]_vars

\* a get_all_poutputs whose filter names the other target has returned a
\* record of the target of its argument, and the other target has records
C23_Witness ==
    /\ last.op = "get_all_poutputs"
    /\ last.result = "ok"
    /\ "target_id" \in DOMAIN last.arg
    /\ TargetScopeOfFilter(last.arg, last.target_id) # last.target_id
    /\ Len(last.out) > 0
    /\ \E r \in table : r.target_id = TargetScopeOfFilter(last.arg, last.target_id)


\* C21: whatever the order of the statements of a delete_all_poutput and
\* of a save_plugin_output on the same target, no row is deleted while the
\* directory that its output_path names is on disk.
C21_FolderGoesWithRow ==
    [][ ( /\ del.pc = "commit"
          /\ del'.pc = "idle" )
        => \A r \in table \ table' :
                r.output_path # None => FolderOf(r) \notin dirs'
      ]_vars

====
